---- MODULE Spec2Model ----
(***************************************************************************)
(* Model of src/main.py: the sequential fetch loop                         *)
(* (get_coordinates / get_weather / get_weather_multiple_cities), the      *)
(* pandas pipeline of process_weather_data, and the threshold filter and   *)
(* exception handler of main.                                              *)
(*                                                                         *)
(* Conventions.  An optional Python value is a sequence of length 0        *)
(* (not bound yet / absent) or 1 (bound).  A DataFrame is a record         *)
(* [columns, rows]; each row carries its pandas index label in idx.        *)
(* Numbers that pandas reports as floats are kept as exact fractions       *)
(* <<numerator, denominator>>; NaN is the empty sequence.                  *)
(***************************************************************************)
EXTENDS Integers, Sequences, FiniteSets, TLC

VARIABLES cities, pc, i, coords, acc, weather_data, df, df_by_temp,
          df_by_humidity, stats, warm_cities, error, out, net

vars == <<cities, pc, i, coords, acc, weather_data, df, df_by_temp,
          df_by_humidity, stats, warm_cities, error, out, net>>

---------------------------------------------------------------------------
(* Bounds of the model *)

MaxCities == 2

CityNames == {"london", "Paris"}

Temps == {-40, 0, 5, 10, 15, 100}

Hums == {40, 60}

Winds == {3}

IsoTimes == {"2024-01-01T12:00"}

---------------------------------------------------------------------------
(* Program constants *)

Threshold == 10

MphPerMsE5 == 223694

Unset == <<>>

NaN == <<>>

Columns == <<"city", "temperature_c", "temperature_f", "wind_speed_ms",
             "wind_speed_mph", "humidity", "timestamp">>

---------------------------------------------------------------------------
(* The two remote endpoints, as far as the program reads them *)

GeoName(city) == IF city = "london" THEN "London" ELSE city

Coordinates(city) == IF city = "london" THEN <<51, 0>> ELSE <<48, 2>>

\* data["results"][0] of a successful geocoding search
GeocodeResult(city) ==
    [name |-> GeoName(city), latitude |-> Coordinates(city)[1],
     longitude |-> Coordinates(city)[2]]

GeocodeOutcomes == {"ok", "noresults", "connection", "malformed"}

ForecastFailures == {"nocurrent", "connection", "malformed"}

Currents == [temperature_2m : Temps, wind_speed_10m : Winds,
             relative_humidity_2m : Hums, time : IsoTimes]

GeocodingUrl(city) ==
    <<"https://geocoding-api.open-meteo.com/v1/search?name=", city, "&count=1">>

WeatherUrl(lat, lon) ==
    <<"https://api.open-meteo.com/v1/forecast", "?latitude=", ToString(lat),
      "&longitude=", ToString(lon),
      "&current=temperature_2m,relative_humidity_2m,wind_speed_10m">>

fromisoformat(s) ==
    IF s = "2024-01-01T12:00" THEN <<2024, 1, 1, 12, 0>> ELSE <<1970, 1, 1, 0, 0>>

---------------------------------------------------------------------------
(* WeatherData and its conversion to a row *)

WeatherData_geocoded_name(city, current) ==
    [city |-> GeoName(city),
     temperature |-> current.temperature_2m,
     wind_speed |-> current.wind_speed_10m,
     humidity |-> current.relative_humidity_2m,
     timestamp |-> fromisoformat(current.time)]

WeatherData(city, current) ==
    [city |-> city,
     temperature |-> current.temperature_2m,
     wind_speed |-> current.wind_speed_10m,
     humidity |-> current.relative_humidity_2m,
     timestamp |-> fromisoformat(current.time)]

to_dict_inverted(self) ==
    [city |-> self.city,
     temperature_c |-> self.temperature,
     temperature_f |-> ((self.temperature * 5) \div 9) + 32,
     wind_speed_ms |-> self.wind_speed,
     wind_speed_mph |-> self.wind_speed * MphPerMsE5,
     humidity |-> self.humidity,
     timestamp |-> self.timestamp]

\* temperatures are multiples of 5, so the true division by 5 is exact;
\* wind_speed_mph is held in units of 1e-5 mph
to_dict(self) ==
    [city |-> self.city,
     temperature_c |-> self.temperature,
     temperature_f |-> ((self.temperature * 9) \div 5) + 32,
     wind_speed_ms |-> self.wind_speed,
     wind_speed_mph |-> self.wind_speed * MphPerMsE5,
     humidity |-> self.humidity,
     timestamp |-> self.timestamp]

---------------------------------------------------------------------------
(* pandas, as far as the program uses it *)

\* pd.DataFrame(list of dicts): RangeIndex labels 0..n-1; an empty list
\* gives a frame with no columns at all
DataFrame(data_dicts) ==
    [columns |-> IF data_dicts = <<>> THEN <<>> ELSE Columns,
     rows |-> [k \in 1..Len(data_dicts) |->
                 [idx |-> k - 1,
                  city |-> data_dicts[k].city,
                  temperature_c |-> data_dicts[k].temperature_c,
                  temperature_f |-> data_dicts[k].temperature_f,
                  wind_speed_ms |-> data_dicts[k].wind_speed_ms,
                  wind_speed_mph |-> data_dicts[k].wind_speed_mph,
                  humidity |-> data_dicts[k].humidity,
                  timestamp |-> data_dicts[k].timestamp]]]

HasColumn(d, name) == \E k \in 1..Len(d.columns) : d.columns[k] = name

Indexers(n) == {p \in [1..n -> 1..n] : \A a, b \in 1..n : a # b => p[a] # p[b]}

nargsort_always_ascending(items, ascending) ==
    {p \in Indexers(Len(items)) :
        \A a, b \in 1..Len(items) : a < b => items[p[a]] <= items[p[b]]}

nargsort_always_descending(items, ascending) ==
    {p \in Indexers(Len(items)) :
        \A a, b \in 1..Len(items) : a < b => items[p[a]] >= items[p[b]]}

\* kind='quicksort' (the default) is not a stable sort: every indexer that
\* orders the keys is a possible result
nargsort(items, ascending) ==
    {p \in Indexers(Len(items)) :
        \A a, b \in 1..Len(items) : a < b =>
            IF ascending THEN items[p[a]] <= items[p[b]]
                         ELSE items[p[a]] >= items[p[b]]}

\* df.sort_values(by, ascending=...), inplace=False: the set of frames it
\* may return (the caller checks the column first, see KeyError below)
sort_values(d, by, ascending) ==
    {[columns |-> d.columns, rows |-> [k \in 1..Len(d.rows) |-> d.rows[p[k]]]] :
        p \in nargsort([k \in 1..Len(d.rows) |-> d.rows[k][by]], ascending)}

RECURSIVE SumSeq(_)
SumSeq(v) == IF v = <<>> THEN 0 ELSE Head(v) + SumSeq(Tail(v))

RECURSIVE SumSq(_)
SumSq(v) == IF v = <<>> THEN 0 ELSE Head(v) * Head(v) + SumSq(Tail(v))

RECURSIVE Insert(_, _)
Insert(x, v) ==
    IF v = <<>> THEN <<x>>
    ELSE IF x <= Head(v) THEN <<x>> \o v
    ELSE <<Head(v)>> \o Insert(x, Tail(v))

RECURSIVE SortedValues(_)
SortedValues(v) == IF v = <<>> THEN <<>> ELSE Insert(Head(v), SortedValues(Tail(v)))

\* percentile q/4 with linear interpolation between ranks, over sorted a
Quantile(a, q) ==
    LET n == Len(a)
        pos == q * (n - 1)
        lo == (pos \div 4) + 1
        hi == IF lo + 1 <= n THEN lo + 1 ELSE n
    IN  <<4 * a[lo] + (pos % 4) * (a[hi] - a[lo]), 4>>

\* Series.describe(); std is reported by its square (sample variance)
describe_column(v) ==
    LET n == Len(v)
        a == SortedValues(v)
    IN  [count |-> n,
         mean |-> IF n = 0 THEN NaN ELSE <<SumSeq(v), n>>,
         std2 |-> IF n < 2 THEN NaN
                  ELSE <<n * SumSq(v) - SumSeq(v) * SumSeq(v), n * (n - 1)>>,
         min |-> IF n = 0 THEN NaN ELSE <<a[1], 1>>,
         q25 |-> IF n = 0 THEN NaN ELSE Quantile(a, 1),
         q50 |-> IF n = 0 THEN NaN ELSE Quantile(a, 2),
         q75 |-> IF n = 0 THEN NaN ELSE Quantile(a, 3),
         max |-> IF n = 0 THEN NaN ELSE <<a[n], 1>>]

ColumnOf(d, name) == [k \in 1..Len(d.rows) |-> d.rows[k][name]]

describe(d) ==
    [temperature_c |-> describe_column(ColumnOf(d, "temperature_c")),
     wind_speed_ms |-> describe_column(ColumnOf(d, "wind_speed_ms")),
     humidity |-> describe_column(ColumnOf(d, "humidity"))]

FilterAbove_or_equal(d, threshold) ==
    [columns |-> d.columns,
     rows |-> SelectSeq(d.rows, LAMBDA r : r.temperature_c >= threshold)]

\* df[df['temperature_c'] > threshold]
FilterAbove(d, threshold) ==
    [columns |-> d.columns,
     rows |-> SelectSeq(d.rows, LAMBDA r : r.temperature_c > threshold)]

---------------------------------------------------------------------------
(* The program *)

RECURSIVE SeqsUpTo(_)
SeqsUpTo(n) ==
    IF n = 0 THEN {<<>>}
    ELSE SeqsUpTo(n - 1) \cup [1..n -> CityNames]

Init ==
    /\ cities \in SeqsUpTo(MaxCities)
    /\ pc = "get_coordinates"
    /\ i = 1
    /\ coords = Unset
    /\ acc = <<>>
    /\ weather_data = Unset
    /\ df = Unset
    /\ df_by_temp = Unset
    /\ df_by_humidity = Unset
    /\ stats = Unset
    /\ warm_cities = Unset
    /\ error = Unset
    /\ out = <<>>
    /\ net = <<>>

\* an exception leaves the comprehension and get_weather_multiple_cities,
\* and is caught by main: print(f"Error: {e}")
Raise(type, msg) ==
    /\ error' = <<[type |-> type, msg |-> msg]>>
    /\ out' = Append(out, "Error")
    /\ acc' = <<>>
    /\ coords' = Unset
    /\ pc' = "done"

\* requests.get(url) and response.json(): the request goes out and its
\* response (body: the part of the JSON the program reads, if any) comes back
Request(kind, url, outcome, body) ==
    net' = Append(net, [kind |-> kind, city |-> i, url |-> url,
                        outcome |-> outcome, body |-> body])

GetCoordinates_skip_unknown ==
    /\ pc = "get_coordinates"
    /\ i <= Len(cities)
    /\ \E o \in GeocodeOutcomes :
        /\ Request("geocode", GeocodingUrl(cities[i]), o,
                   IF o = "ok" THEN <<GeocodeResult(cities[i])>> ELSE <<>>)
        /\ IF o = "ok"
           THEN /\ coords' = <<<<GeocodeResult(cities[i]).latitude,
                                 GeocodeResult(cities[i]).longitude>>>>
                /\ pc' = "get_weather"
                /\ UNCHANGED <<i, acc, error, out>>
           ELSE /\ i' = i + 1
                /\ UNCHANGED <<pc, coords, acc, error, out>>
    /\ UNCHANGED <<cities, weather_data, df, df_by_temp, df_by_humidity,
                   stats, warm_cities>>

GetCoordinates ==
    /\ pc = "get_coordinates"
    /\ i <= Len(cities)
    /\ \E o \in GeocodeOutcomes :
        /\ Request("geocode", GeocodingUrl(cities[i]), o,
                   IF o = "ok" THEN <<GeocodeResult(cities[i])>> ELSE <<>>)
        /\ CASE o = "ok" ->
                  /\ coords' = <<<<GeocodeResult(cities[i]).latitude,
                                   GeocodeResult(cities[i]).longitude>>>>
                  /\ pc' = "get_weather"
                  /\ UNCHANGED <<acc, error, out>>
             [] o = "noresults" ->
                  Raise("ValueError", <<"Could not find coordinates for ", cities[i]>>)
             [] o = "connection" ->
                  Raise("ConnectionError",
                        <<"Max retries exceeded with url: ">> \o GeocodingUrl(cities[i]))
             [] o = "malformed" ->
                  Raise("JSONDecodeError", <<"Expecting value">>)
    /\ UNCHANGED <<cities, i, weather_data, df, df_by_temp, df_by_humidity,
                   stats, warm_cities>>

GetWeatherOk ==
    \E current \in Currents :
        /\ Request("forecast", WeatherUrl(coords[1][1], coords[1][2]), "ok", <<current>>)
        /\ acc' = Append(acc, WeatherData(cities[i], current))
        /\ i' = i + 1
        /\ coords' = Unset
        /\ pc' = "get_coordinates"
        /\ UNCHANGED <<error, out>>

GetWeather_continue_on_failure ==
    /\ pc = "get_weather"
    /\ \/ GetWeatherOk
       \/ \E o \in ForecastFailures :
            /\ Request("forecast", WeatherUrl(coords[1][1], coords[1][2]), o, <<>>)
            /\ i' = i + 1
            /\ coords' = Unset
            /\ pc' = "get_coordinates"
            /\ UNCHANGED <<acc, error, out>>
    /\ UNCHANGED <<cities, weather_data, df, df_by_temp, df_by_humidity,
                   stats, warm_cities>>

GetWeather ==
    /\ pc = "get_weather"
    /\ \/ GetWeatherOk
       \/ \E o \in ForecastFailures :
            /\ Request("forecast", WeatherUrl(coords[1][1], coords[1][2]), o, <<>>)
            /\ UNCHANGED i
            /\ CASE o = "nocurrent" ->
                      Raise("KeyError", <<"'current'">>)
                 [] o = "connection" ->
                      Raise("ConnectionError",
                            <<"Max retries exceeded with url: ">>
                                \o WeatherUrl(coords[1][1], coords[1][2]))
                 [] o = "malformed" ->
                      Raise("JSONDecodeError", <<"Expecting value">>)
    /\ UNCHANGED <<cities, weather_data, df, df_by_temp, df_by_humidity,
                   stats, warm_cities>>

\* the comprehension is exhausted: the list is bound to weather_data in main
GetWeatherMultipleCities ==
    /\ pc = "get_coordinates"
    /\ i > Len(cities)
    /\ weather_data' = <<acc>>
    /\ pc' = "process"
    /\ UNCHANGED <<cities, i, coords, acc, df, df_by_temp, df_by_humidity,
                   stats, warm_cities, error, out, net>>

ProcessOutput ==
    <<"Cities Ranked by Temperature (Hottest to Coldest):",
      "Cities Ranked by Humidity (Driest to Most Humid):",
      "Summary Statistics:", "Data saved to", "Plot saved as">>

\* process_weather_data from the rankings on, with the frame it returns
Processed(d, by_temp, by_humidity, returned) ==
    /\ df_by_temp' = <<by_temp>>
    /\ df_by_humidity' = <<by_humidity>>
    /\ stats' = <<describe(d)>>
    /\ out' = out \o ProcessOutput
    /\ df' = <<returned>>
    /\ pc' = "filter"
    /\ UNCHANGED error

ProcessWeatherData_inplace ==
    /\ pc = "process"
    /\ LET data_dicts == [k \in 1..Len(weather_data[1]) |-> to_dict(weather_data[1][k])]
           d == DataFrame(data_dicts)
       IN  IF ~HasColumn(d, "temperature_c")
           THEN /\ error' = <<[type |-> "KeyError", msg |-> <<"'temperature_c'">>]>>
                /\ out' = Append(out, "Error")
                /\ pc' = "done"
                /\ UNCHANGED <<df, df_by_temp, df_by_humidity, stats>>
           ELSE \E by_temp \in sort_values(d, "temperature_c", FALSE) :
                \E by_humidity \in sort_values(by_temp, "humidity", TRUE) :
                    Processed(d, by_temp, by_humidity, by_humidity)
    /\ UNCHANGED <<cities, i, coords, acc, weather_data, warm_cities, net>>

ProcessWeatherData ==
    /\ pc = "process"
    /\ LET data_dicts == [k \in 1..Len(weather_data[1]) |-> to_dict(weather_data[1][k])]
           d == DataFrame(data_dicts)
       IN  IF ~HasColumn(d, "temperature_c")
           THEN \* df.sort_values('temperature_c') raises; main catches it
                /\ error' = <<[type |-> "KeyError", msg |-> <<"'temperature_c'">>]>>
                /\ out' = Append(out, "Error")
                /\ pc' = "done"
                /\ UNCHANGED <<df, df_by_temp, df_by_humidity, stats>>
           ELSE \E by_temp \in sort_values(d, "temperature_c", FALSE) :
                \E by_humidity \in sort_values(d, "humidity", TRUE) :
                    Processed(d, by_temp, by_humidity, d)
    /\ UNCHANGED <<cities, i, coords, acc, weather_data, warm_cities, net>>

FilterWarmCities ==
    /\ pc = "filter"
    /\ LET warm == FilterAbove(df[1], Threshold)
       IN  /\ warm_cities' = <<warm>>
           /\ out' = IF warm.rows # <<>> THEN Append(out, "Warm Cities (>10C):") ELSE out
    /\ pc' = "done"
    /\ UNCHANGED <<cities, i, coords, acc, weather_data, df, df_by_temp,
                   df_by_humidity, stats, error, net>>

Next ==
    \/ GetCoordinates
    \/ GetWeather
    \/ GetWeatherMultipleCities
    \/ ProcessWeatherData
    \/ FilterWarmCities

Spec == Init /\ [][Next]_vars

---------------------------------------------------------------------------
(* Properties *)

FetchFailed == net # <<>> /\ net[Len(net)].outcome # "ok"

Descending(r) == \A a, b \in 1..Len(r) : a < b => r[a].temperature_c >= r[b].temperature_c

AscendingHumidity(r) == \A a, b \in 1..Len(r) : a < b => r[a].humidity <= r[b].humidity

SameRows(r, t) == Len(r) = Len(t) /\ {r[k] : k \in 1..Len(r)} = {t[k] : k \in 1..Len(t)}

\* C1: when every lookup succeeds, get_weather_multiple_cities returns one
\* record per input city, in input order, each carrying the city name exactly
\* as the caller supplied it (duplicates kept, no geocoded name).
C1_OneRecordPerCityInOrder ==
    /\ weather_data # Unset =>
        /\ Len(weather_data[1]) = Len(cities)
        /\ \A k \in 1..Len(cities) : weather_data[1][k].city = cities[k]
    /\ (pc \in {"process", "filter", "done"} /\ ~FetchFailed) => weather_data # Unset

C1_Witness ==
    /\ weather_data # Unset
    /\ Len(weather_data[1]) = 2
    /\ cities = <<"london", "london">>
    /\ net[1].body[1].name = "London"

\* C2: once a geocoding lookup has returned no results, the batch has failed
\* with the resolution error (ValueError) and no list of records, partial or
\* not, is bound in main or reaches the pipeline.
C2_FailFastOnUnknownCity ==
    (\E k \in 1..Len(net) : net[k].kind = "geocode" /\ net[k].outcome = "noresults") =>
        /\ pc = "done"
        /\ error # Unset
        /\ error[1].type = "ValueError"
        /\ weather_data = Unset
        /\ acc = <<>>
        /\ df = Unset
        /\ df_by_temp = Unset
        /\ df_by_humidity = Unset
        /\ stats = Unset
        /\ warm_cities = Unset

C2_Witness ==
    /\ Len(net) = 3
    /\ net[2].outcome = "ok"
    /\ net[3].kind = "geocode"
    /\ net[3].outcome = "noresults"
    /\ pc = "done"

\* C3: whatever the kind of fetch failure, the first error aborts the batch
\* and the error surfaced to the caller identifies the city whose fetch failed.
C3_ErrorIdentifiesCity ==
    FetchFailed =>
        /\ pc = "done"
        /\ weather_data = Unset
        /\ error # Unset
        /\ \E k \in 1..Len(error[1].msg) : error[1].msg[k] = cities[net[Len(net)].city]

ExampleFrame ==
    DataFrame(<<to_dict([city |-> "A", temperature |-> 15, wind_speed |-> 3,
                         humidity |-> 40, timestamp |-> <<2024, 1, 1, 12, 0>>]),
                to_dict([city |-> "B", temperature |-> 5, wind_speed |-> 3,
                         humidity |-> 40, timestamp |-> <<2024, 1, 1, 12, 0>>]),
                to_dict([city |-> "C", temperature |-> 10, wind_speed |-> 3,
                         humidity |-> 40, timestamp |-> <<2024, 1, 1, 12, 0>>])>>)

\* C6: the threshold filter keeps exactly the rows whose temperature_c is
\* strictly greater than the threshold, in table order; when none qualifies
\* the result is an empty frame, not an absent value and not an error.
\* Threshold 10 over [15, 5, 10] keeps the first row, threshold 4 all three.
C6_ThresholdFilter ==
    /\ warm_cities # Unset =>
        LET w == warm_cities[1].rows
            t == df[1].rows
        IN  /\ \A k \in 1..Len(w) : w[k].temperature_c > Threshold
            /\ \A k \in 1..Len(w) : \E j \in 1..Len(t) : t[j] = w[k]
            /\ \A j \in 1..Len(t) :
                  t[j].temperature_c > Threshold => \E k \in 1..Len(w) : w[k] = t[j]
            /\ \A a, b \in 1..Len(w) : a < b => w[a].idx < w[b].idx
            /\ error = Unset
            /\ FilterAbove(ExampleFrame, 10).rows = <<ExampleFrame.rows[1]>>
            /\ FilterAbove(ExampleFrame, 4).rows = ExampleFrame.rows
    /\ (pc = "done" /\ df # Unset) => warm_cities # Unset

C6_Witness ==
    /\ warm_cities # Unset
    /\ Len(df[1].rows) = 2
    /\ df[1].rows[1].temperature_c = Threshold
    /\ df[1].rows[2].temperature_c = 15
    /\ Len(warm_cities[1].rows) = 1

AllUndefined(col) ==
    /\ col.mean = NaN
    /\ col.std2 = NaN
    /\ col.min = NaN
    /\ col.q25 = NaN
    /\ col.q50 = NaN
    /\ col.q75 = NaN
    /\ col.max = NaN

\* C7: the pipeline run on an empty sequence of records raises no error, its
\* rankings are empty and every summary statistic is undefined.
C7_EmptyTableIsValid ==
    (weather_data = <<<<>>>> /\ pc \in {"filter", "done"}) =>
        /\ error = Unset
        /\ df # Unset
        /\ df_by_temp # Unset
        /\ df_by_temp[1].rows = <<>>
        /\ df_by_humidity # Unset
        /\ df_by_humidity[1].rows = <<>>
        /\ stats # Unset
        /\ AllUndefined(stats[1].temperature_c)
        /\ AllUndefined(stats[1].wind_speed_ms)
        /\ AllUndefined(stats[1].humidity)

\* the records the forecast responses on the wire amount to, in fetch order
RECURSIVE FetchedRecords(_)
FetchedRecords(log) ==
    IF log = <<>> THEN <<>>
    ELSE LET e == log[Len(log)]
             before == FetchedRecords(SubSeq(log, 1, Len(log) - 1))
         IN  IF e.kind = "forecast" /\ e.outcome = "ok"
             THEN Append(before, [city |-> cities[e.city],
                                  temperature |-> e.body[1].temperature_2m,
                                  wind_speed |-> e.body[1].wind_speed_10m,
                                  humidity |-> e.body[1].relative_humidity_2m,
                                  time |-> e.body[1].time])
             ELSE before

\* C8: the rankings, the summary statistics and the filter leave their input
\* alone: once the table exists, the list of records still holds what was
\* fetched, in fetch order, and the table returned to the caller still holds
\* one row per record in city-insertion order with that record's values.
C8_NoMutation ==
    df # Unset =>
        LET f == FetchedRecords(net)
            w == weather_data[1]
            t == df[1].rows
        IN  /\ Len(w) = Len(f)
            /\ Len(t) = Len(f)
            /\ \A k \in 1..Len(f) :
                  /\ w[k].city = f[k].city
                  /\ w[k].temperature = f[k].temperature
                  /\ w[k].wind_speed = f[k].wind_speed
                  /\ w[k].humidity = f[k].humidity
                  /\ t[k].idx = k - 1
                  /\ t[k].city = f[k].city
                  /\ t[k].temperature_c = f[k].temperature
                  /\ t[k].wind_speed_ms = f[k].wind_speed
                  /\ t[k].humidity = f[k].humidity

C8_Witness ==
    /\ pc = "done"
    /\ warm_cities # Unset
    /\ Len(df[1].rows) = 2
    /\ df_by_temp[1].rows # df[1].rows
    /\ df_by_humidity[1].rows # df[1].rows
    /\ warm_cities[1].rows # df[1].rows

\* C9: in every normalized row temperature_f is temperature_c * 9/5 + 32 of
\* that row's own temperature_c, which is the record's temperature; 0 gives
\* 32, 100 gives 212 and -40 gives -40.
C9_Fahrenheit ==
    df # Unset =>
        \A k \in 1..Len(df[1].rows) :
            LET r == df[1].rows[k]
            IN  /\ r.temperature_c = weather_data[1][k].temperature
                /\ 5 * r.temperature_f = 9 * r.temperature_c + 160
                /\ r.temperature_c = 0 => r.temperature_f = 32
                /\ r.temperature_c = 100 => r.temperature_f = 212
                /\ r.temperature_c = -40 => r.temperature_f = -40

C9_Witness ==
    /\ df # Unset
    /\ Len(df[1].rows) = 2
    /\ df[1].rows[1].temperature_c = -40
    /\ df[1].rows[1].temperature_f = -40
    /\ df[1].rows[2].temperature_c = 100
    /\ df[1].rows[2].temperature_f = 212

\* C10: the requests issued are a prefix of geocode(c1), forecast(c1),
\* geocode(c2), forecast(c2), ...: each request follows the success of the
\* one before it, and a failed request is the last one issued.
C10_SequentialRequests ==
    /\ Len(net) <= 2 * Len(cities)
    /\ \A k \in 1..Len(net) :
          /\ net[k].city = (k + 1) \div 2
          /\ net[k].kind = (IF k % 2 = 1 THEN "geocode" ELSE "forecast")
          /\ net[k].kind = "geocode" => net[k].url = GeocodingUrl(cities[net[k].city])
          /\ net[k].kind = "forecast" =>
                net[k].url = WeatherUrl(net[k - 1].body[1].latitude,
                                        net[k - 1].body[1].longitude)
          /\ k < Len(net) => net[k].outcome = "ok"
    /\ FetchFailed => pc = "done"

C10_Witness ==
    /\ Len(net) = 4
    /\ net[4].outcome = "connection"
    /\ pc = "done"

====
